---- MODULE Spec2Model ----
(***************************************************************************)
(* Model of script.unqlocked/unqlocked/statemachine.py: the StateMachine   *)
(* thread (run / shouldStop / stop) and the QlockThread clock face (step,  *)
(* highlight, highlightRow, cleanup, calcDelay).                           *)
(*                                                                         *)
(* Strings are modelled as sequences of one-character strings, so that a   *)
(* grid cell may hold more than one character and slicing is explicit.     *)
(* Cell and token indexes are 0-based as in the source; the sequences that *)
(* carry them are 1-based, hence the "+ 1" in the subscripts.              *)
(***************************************************************************)
EXTENDS Integers, Sequences, FiniteSets, TLC

(***************************************************************************)
(* Bounds of the model.                                                    *)
(***************************************************************************)
NumStoppers == 2       \* threads that call stop()
ClockSamples == 2      \* wall-clock readings per day offered to each read
MaxWidth == 3          \* widest enumerated character grid
MaxTokens == 2         \* longest enumerated token sequence

(***************************************************************************)
(* Program constants.                                                      *)
(***************************************************************************)
DaySeconds == 86400    \* 24 * 60 * 60
MillisPerSecond == 1000 \* resolution kept of now.microsecond / 1000000.0

\* Fields of an object whose construction failed; the local delay of run
\* while no sleep is requested.
None == "None"
NoSleep == 0 - 1

\* The state passed to the last call of step, while step was never called.
NoTick == 0 - 1

Stoppers == 1..NumStoppers

\* Owners of the condition's lock.
Free == <<>>
RunThread == <<"run">>
Stopper(s) == <<"stop", s>>

(***************************************************************************)
(* unqlocked.Time: a time of day held as hours, minutes and seconds.       *)
(***************************************************************************)
fromSeconds(s) ==
    LET n == s % DaySeconds
    IN  [hours |-> n \div 3600, minutes |-> (n \div 60) % 60, seconds |-> n % 60]

toSeconds(t) == t.hours * 3600 + t.minutes * 60 + t.seconds

(***************************************************************************)
(* unqlocked.gcd and unqlocked.createTruthMatrix.                          *)
(***************************************************************************)
RECURSIVE gcd(_, _)
gcd(a, b) == IF b = 0 THEN a ELSE gcd(b, a % b)

createTruthMatrix(height, width) ==
    [r \in 1..height |-> [c \in 1..width |-> FALSE]]

(***************************************************************************)
(* String helpers: ''.join(cells), s.startswith(t), s[n:].                 *)
(***************************************************************************)
RECURSIVE join(_)
join(cells) == IF cells = <<>> THEN <<>> ELSE Head(cells) \o join(Tail(cells))

startswith(s, t) == Len(t) <= Len(s) /\ SubSeq(s, 1, Len(t)) = t

sliceFrom(s, n) == SubSeq(s, n + 1, Len(s))

(***************************************************************************)
(* QlockThread.highlightRow.  markToken is the inner "while len(token)"    *)
(* loop; scanRow is the outer "while i < len(charRow)" loop.  spans is a   *)
(* record of the loop's matches (row, first cell, last cell), kept beside  *)
(* the values the source computes.                                         *)
(***************************************************************************)
\* Mutant of markToken: a cell of the match is switched over instead of set.
RECURSIVE markToken_Toggle(_, _, _, _, _)
markToken_Toggle(charRow, row, truthMatrix, token, i) ==
    IF Len(token) = 0
    THEN [truthMatrix |-> truthMatrix, i |-> i]
    ELSE markToken_Toggle(charRow, row,
                          [truthMatrix EXCEPT ![row + 1][i + 1] = ~truthMatrix[row + 1][i + 1]],
                          sliceFrom(token, Len(charRow[i + 1])),
                          i + 1)

RECURSIVE markToken(_, _, _, _, _)
markToken(charRow, row, truthMatrix, token, i) ==
    IF Len(token) = 0
    THEN [truthMatrix |-> truthMatrix, i |-> i]
    ELSE markToken(charRow, row,
                   [truthMatrix EXCEPT ![row + 1][i + 1] = TRUE],
                   sliceFrom(token, Len(charRow[i + 1])),
                   i + 1)

RECURSIVE scanRow(_, _, _, _, _, _, _)
scanRow(charRow, row, truthMatrix, tokens, forceSpace, i, spans) ==
    IF ~(i < Len(charRow)) \/ Len(tokens) = 0
    THEN [truthMatrix |-> truthMatrix, tokens |-> tokens, spans |-> spans]
    ELSE LET token == tokens[1]
         IN  IF startswith(join(sliceFrom(charRow, i)), token)
             THEN LET m  == markToken(charRow, row, truthMatrix, token, i)
                      i2 == IF ~forceSpace THEN m.i - 1 ELSE m.i
                  IN  scanRow(charRow, row, m.truthMatrix, sliceFrom(tokens, 1),
                              forceSpace, i2 + 1,
                              Append(spans, [row |-> row, first |-> i, last |-> m.i - 1]))
             ELSE scanRow(charRow, row, truthMatrix, tokens, forceSpace, i + 1, spans)

\* Mutants of highlightRow: forceSpace ignored, one way and the other.
highlightRow_NeverSpace(charRow, row, truthMatrix, tokens, forceSpace) ==
    LET r == scanRow(charRow, row, truthMatrix, tokens, FALSE, 0, <<>>)
    IN  [consumed |-> Len(tokens) - Len(r.tokens),
         truthMatrix |-> r.truthMatrix,
         spans |-> r.spans]

highlightRow_AlwaysSpace(charRow, row, truthMatrix, tokens, forceSpace) ==
    LET r == scanRow(charRow, row, truthMatrix, tokens, TRUE, 0, <<>>)
    IN  [consumed |-> Len(tokens) - Len(r.tokens),
         truthMatrix |-> r.truthMatrix,
         spans |-> r.spans]

\* Mutant of highlightRow: forceSpace taken the wrong way round.
highlightRow_Inverted(charRow, row, truthMatrix, tokens, forceSpace) ==
    LET r == scanRow(charRow, row, truthMatrix, tokens, ~forceSpace, 0, <<>>)
    IN  [consumed |-> Len(tokens) - Len(r.tokens),
         truthMatrix |-> r.truthMatrix,
         spans |-> r.spans]

highlightRow(charRow, row, truthMatrix, tokens, forceSpace) ==
    LET r == scanRow(charRow, row, truthMatrix, tokens, forceSpace, 0, <<>>)
    IN  [consumed |-> Len(tokens) - Len(r.tokens),
         truthMatrix |-> r.truthMatrix,
         spans |-> r.spans]

(***************************************************************************)
(* QlockThread.highlight: the rows in order, the unconsumed tokens carried *)
(* to the next row.  height is self.layout.height.                         *)
(***************************************************************************)
RECURSIVE highlightRows(_, _, _, _, _, _, _)
highlightRows(height, charMatrix, truthMatrix, tokens, forceSpace, row, spans) ==
    IF ~(row < height) \/ Len(tokens) = 0
    THEN [success |-> Len(tokens) = 0, truthMatrix |-> truthMatrix,
          tokens |-> tokens, spans |-> spans]
    ELSE LET r == highlightRow(charMatrix[row + 1], row, truthMatrix, tokens, forceSpace)
         IN  highlightRows(height, charMatrix, r.truthMatrix,
                           sliceFrom(tokens, r.consumed), forceSpace, row + 1,
                           spans \o r.spans)

highlight(height, charMatrix, truthMatrix, tokens, forceSpace) ==
    highlightRows(height, charMatrix, truthMatrix, tokens, forceSpace, 0, <<>>)

(***************************************************************************)
(* QlockThread.calcDelay: reduce(gcd, [time.toSeconds() for time in        *)
(* layout.times.keys()]).  reduce raises TypeError on an empty list.       *)
(***************************************************************************)
RECURSIVE reduceGcd(_, _)
reduceGcd(acc, rest) ==
    IF rest = {} THEN acc
    ELSE LET x == CHOOSE y \in rest : TRUE
         IN  reduceGcd(gcd(acc, x), rest \ {x})

\* Mutant of calcDelay: the smallest time entry instead of the GCD.
calcDelay_Smallest(layoutTimes) ==
    IF layoutTimes = {} THEN "TypeError"
    ELSE CHOOSE y \in layoutTimes : \A z \in layoutTimes : y <= z

calcDelay(layoutTimes) ==
    IF layoutTimes = {} THEN "TypeError"
    ELSE LET first == CHOOSE y \in layoutTimes : TRUE
         IN  reduceGcd(first, layoutTimes \ {first})

(***************************************************************************)
(* StateMachine.run, lines 62-66: the sleep until the next state, from a   *)
(* wall-clock reading in milliseconds of the day.  The result is in        *)
(* milliseconds.                                                           *)
(***************************************************************************)
\* Mutant of sleepDuration: a negative difference is not brought into the day.
sleepDuration_NoWrap(stateSeconds, nowMs) ==
    stateSeconds * MillisPerSecond - nowMs

sleepDuration(stateSeconds, nowMs) ==
    LET d == stateSeconds * MillisPerSecond - nowMs
    IN  IF d < 0 THEN d + DaySeconds * MillisPerSecond ELSE d

(***************************************************************************)
(* StateMachine.shouldStop: the value returned and the new windowSighted.  *)
(***************************************************************************)
\* Mutant of shouldStop: the loss of visibility is not looked at.
shouldStop_StopOnly(sighted, isVisible, stopRequested) ==
    [ret |-> stopRequested, windowSighted |-> sighted \/ isVisible]

\* Mutant of shouldStop: windowSighted follows what the window shows now.
shouldStop_TracksVisible(sighted, isVisible, stopRequested) ==
    IF sighted /\ ~isVisible
    THEN [ret |-> TRUE, windowSighted |-> FALSE]
    ELSE [ret |-> stopRequested, windowSighted |-> isVisible]

\* Mutant of shouldStop: a window that is not visible stops the loop, seen before or not.
shouldStop_StopsUnsighted(sighted, isVisible, stopRequested) ==
    IF ~isVisible
    THEN [ret |-> TRUE, windowSighted |-> sighted]
    ELSE [ret |-> stopRequested, windowSighted |-> TRUE]

shouldStop(sighted, isVisible, stopRequested) ==
    IF sighted /\ ~isVisible
    THEN [ret |-> TRUE, windowSighted |-> sighted]
    ELSE IF isVisible
         THEN [ret |-> stopRequested, windowSighted |-> TRUE]
         ELSE [ret |-> stopRequested, windowSighted |-> sighted]

(***************************************************************************)
(* Inputs.  TimeSets are the layout.times key sets (seconds of the day)    *)
(* offered to the constructor; WallClock the readings of datetime.now()    *)
(* in milliseconds of the day.                                             *)
(***************************************************************************)
TimeSets == { {}, {0}, {43200}, {43200, 64800}, {32400, 64800} }

WallClock ==
    { (k * DaySeconds * MillisPerSecond) \div ClockSamples : k \in 0..(ClockSamples - 1) }
        \cup { 86350 * MillisPerSecond + 500 }

ExampleRow == << <<"a">>, <<"h">>, <<"a">>, <<"l">>, <<"f">> >>
ExampleTokens == << <<"a">>, <<"h", "a", "l", "f">> >>
ExampleLayout == [height |-> 1, width |-> 5, matrix |-> <<ExampleRow>>]

Cells == { <<"a">>, <<"b">>, <<"a", "b">> }
Words == { <<"a">>, <<"b">>, <<"a", "b">>, <<"b", "a">> }

RECURSIVE SeqsUpTo(_, _)
SeqsUpTo(S, n) ==
    IF n = 0 THEN { <<>> }
    ELSE LET shorter == SeqsUpTo(S, n - 1)
         IN  shorter \cup { Append(q, x) : q \in shorter, x \in S }

SeqsOf(S, n) == { q \in SeqsUpTo(S, n) : Len(q) = n }

\* Grids of one row up to MaxWidth cells wide, and of two rows one cell narrower.
AllLayouts ==
    { [height |-> 1, width |-> Len(r), matrix |-> <<r>>] :
        r \in SeqsUpTo(Cells, MaxWidth) \ { <<>> } }
    \cup { [height |-> 2, width |-> Len(r[1]), matrix |-> r] :
             r \in UNION { SeqsOf(SeqsOf(Cells, w), 2) : w \in 1..(MaxWidth - 1) } }
    \cup { ExampleLayout }

AllPhrases == SeqsUpTo(Words, MaxTokens) \cup { ExampleTokens }

\* The clock face the scheduler runs with: one row a, b; the solver returns
\* a, b (adjacent words, so the strict attempt fails) or b.
SchedLayout == [height |-> 1, width |-> 2, matrix |-> << << <<"a">>, <<"b">> >> >>]
SchedPhrases == { << <<"a">>, <<"b">> >>, << <<"b">> >> }

VARIABLES
    ctor,           \* outcome of QlockThread.__init__: "ok" or the exception raised
    times,          \* layout.times.keys(), in seconds
    layout,         \* self.layout: height, width, matrix
    phrases,        \* the token sequences self.solver.resolveTime can return
    delay,          \* self.delay
    state,          \* self.state, a Time
    _stop,          \* self._stop
    windowSighted,  \* self.windowSighted
    visible,        \* what xbmc.getCondVisibility reports for the window
    lock,           \* owner of self.waitCondition's lock: Free, RunThread or Stopper(s)
    waiter,         \* the run thread's entry in the condition's waiters
    gotit,          \* local gotit of wait(): TRUE when it was left on a notification
    sleepDelay,     \* local delay of run, in milliseconds
    pcRun,          \* position of the scheduler thread
    pcStop,         \* position of each thread calling stop()
    solution,       \* local solution of step
    truthMatrix,    \* local truthMatrix of step
    success,        \* local success of step
    window,         \* the matrix last handed to self.window.drawMatrix, <<>> before
    attempts,       \* highlight calls made by the current step
    drawCount,      \* drawMatrix calls made by the current step
    cleanups,       \* cleanup calls made by run
    wrapped,        \* the state has passed midnight at least once
    ticked          \* the seconds of the state passed to the last call of step

vars == << ctor, times, layout, phrases, delay, state, _stop, windowSighted, visible,
           lock, waiter, gotit, sleepDelay, pcRun, pcStop, solution, truthMatrix,
           success, window, attempts, drawCount, cleanups, wrapped, ticked >>

configVars == << ctor, times, layout, phrases >>
stepVars == << solution, truthMatrix, success, attempts, drawCount >>

StepPcs == { "step", "highlight", "retry", "draw" }

(***************************************************************************)
(* StateMachine.__init__, line 43: the current time rounded down to a      *)
(* multiple of the delay.  The division raises ZeroDivisionError when the  *)
(* delay is 0.                                                             *)
(***************************************************************************)
\* Mutant of initialState: the current time is not rounded down.
initialState_NotRounded(seconds, d) == fromSeconds(seconds)

initialState(seconds, d) == fromSeconds((seconds \div d) * d)

(***************************************************************************)
(* QlockThread.__init__ and StateMachine.__init__.                         *)
(***************************************************************************)
\* Mutant of Construct: an empty time table is given a delay of one minute.
Construct_DefaultDelay(ts, nowMs, lay, phr, vis, pc0, lock0) ==
    LET d == IF ts = {} THEN 60 ELSE calcDelay(ts)
        outcome == IF d = 0 THEN "ZeroDivisionError" ELSE "ok"
        seconds == nowMs \div MillisPerSecond
    IN  /\ ctor = outcome
        /\ times = ts
        /\ layout = lay
        /\ phrases = phr
        /\ visible = vis
        /\ pcStop = [s \in Stoppers |-> "idle"]
        /\ sleepDelay = NoSleep /\ gotit = FALSE
        /\ solution = <<>> /\ truthMatrix = <<>> /\ success = FALSE
        /\ window = <<>>
        /\ attempts = 0 /\ drawCount = 0 /\ cleanups = 0
        /\ wrapped = FALSE
        /\ ticked = NoTick
        /\ IF outcome = "ok"
           THEN /\ delay = d
                /\ state = initialState(seconds, d)
                /\ _stop = FALSE
                /\ windowSighted = FALSE
                /\ lock = lock0
                /\ waiter = "none"
                /\ pcRun = pc0
           ELSE /\ delay = None /\ state = None /\ _stop = None
                /\ windowSighted = None /\ lock = None /\ waiter = None
                /\ pcRun = "failed"

Construct(ts, nowMs, lay, phr, vis, pc0, lock0) ==
    LET outcome == IF ts = {} THEN "TypeError"
                   ELSE IF calcDelay(ts) = 0 THEN "ZeroDivisionError"
                   ELSE "ok"
        seconds == nowMs \div MillisPerSecond
    IN  /\ ctor = outcome
        /\ times = ts
        /\ layout = lay
        /\ phrases = phr
        /\ visible = vis
        /\ pcStop = [s \in Stoppers |-> "idle"]
        /\ sleepDelay = NoSleep /\ gotit = FALSE
        /\ solution = <<>> /\ truthMatrix = <<>> /\ success = FALSE
        /\ window = <<>>
        /\ attempts = 0 /\ drawCount = 0 /\ cleanups = 0
        /\ wrapped = FALSE
        /\ ticked = NoTick
        /\ IF outcome = "ok"
           THEN /\ delay = calcDelay(ts)
                /\ state = initialState(seconds, calcDelay(ts))
                /\ _stop = FALSE
                /\ windowSighted = FALSE
                /\ lock = lock0
                /\ waiter = "none"
                /\ pcRun = pc0
           ELSE /\ delay = None /\ state = None /\ _stop = None
                /\ windowSighted = None /\ lock = None /\ waiter = None
                /\ pcRun = "failed"

Init ==
    \E ts \in TimeSets, nowMs \in WallClock, vis \in BOOLEAN :
        Construct(ts, nowMs, SchedLayout, SchedPhrases, vis, "new", Free)

(***************************************************************************)
(* The scheduler thread: threading.Thread.start, then StateMachine.run.    *)
(***************************************************************************)
Start ==
    /\ pcRun = "new"
    /\ pcRun' = "acquire"
    /\ UNCHANGED << configVars, stepVars, delay, state, _stop, windowSighted,
                    visible, lock, waiter, gotit, sleepDelay, pcStop, window, cleanups, wrapped, ticked >>

RunAcquire ==
    /\ pcRun = "acquire"
    /\ lock = Free
    /\ lock' = RunThread
    /\ pcRun' = "check"
    /\ UNCHANGED << configVars, stepVars, delay, state, _stop, windowSighted,
                    visible, waiter, gotit, sleepDelay, pcStop, window, cleanups, wrapped, ticked >>

RunCheck ==
    /\ pcRun = "check"
    /\ LET r == shouldStop(windowSighted, visible, _stop)
       IN  /\ windowSighted' = r.windowSighted
           /\ pcRun' = IF r.ret THEN "cleanup" ELSE "step"
    /\ UNCHANGED << configVars, stepVars, delay, state, _stop,
                    visible, lock, waiter, gotit, sleepDelay, pcStop, window, cleanups, wrapped, ticked >>

(***************************************************************************)
(* QlockThread.step, statement by statement.                               *)
(***************************************************************************)
StepSolve ==
    /\ pcRun = "step"
    /\ \E sol \in phrases : solution' = sol
    /\ ticked' = toSeconds(state)
    /\ pcRun' = "highlight"
    /\ UNCHANGED << configVars, truthMatrix, success, attempts, drawCount, delay, state, _stop,
                    windowSighted, visible, lock, waiter, gotit, sleepDelay, pcStop,
                    window, cleanups, wrapped >>

StepHighlight ==
    /\ pcRun = "highlight"
    /\ LET r == highlight(layout.height, layout.matrix,
                          createTruthMatrix(layout.height, layout.width), solution, TRUE)
       IN  /\ truthMatrix' = r.truthMatrix
           /\ success' = r.success
           /\ pcRun' = IF ~r.success THEN "retry" ELSE "draw"
    /\ attempts' = attempts + 1
    /\ UNCHANGED << configVars, solution, drawCount, delay, state, _stop,
                    windowSighted, visible, lock, waiter, gotit, sleepDelay, pcStop,
                    window, cleanups, wrapped, ticked >>

\* Mutant of StepRetry: the second attempt made like the first.
StepRetry_StillStrict ==
    /\ pcRun = "retry"
    /\ LET r == highlight(layout.height, layout.matrix,
                          createTruthMatrix(layout.height, layout.width), solution, TRUE)
       IN  /\ truthMatrix' = r.truthMatrix
           /\ success' = r.success
    /\ attempts' = attempts + 1
    /\ pcRun' = "draw"
    /\ UNCHANGED << configVars, solution, drawCount, delay, state, _stop,
                    windowSighted, visible, lock, waiter, gotit, sleepDelay, pcStop,
                    window, cleanups, wrapped, ticked >>

StepRetry ==
    /\ pcRun = "retry"
    /\ LET r == highlight(layout.height, layout.matrix,
                          createTruthMatrix(layout.height, layout.width), solution, FALSE)
       IN  /\ truthMatrix' = r.truthMatrix
           /\ success' = r.success
    /\ attempts' = attempts + 1
    /\ pcRun' = "draw"
    /\ UNCHANGED << configVars, solution, drawCount, delay, state, _stop,
                    windowSighted, visible, lock, waiter, gotit, sleepDelay, pcStop,
                    window, cleanups, wrapped, ticked >>

StepDraw ==
    /\ pcRun = "draw"
    /\ window' = truthMatrix
    /\ drawCount' = drawCount + 1
    /\ pcRun' = "advance"
    /\ UNCHANGED << configVars, solution, truthMatrix, success, attempts,
                    delay, state, _stop, windowSighted, visible, lock, waiter, gotit,
                    sleepDelay, pcStop, cleanups, wrapped, ticked >>

(***************************************************************************)
(* StateMachine.run, lines 58-68: the next state, the sleep duration, and  *)
(* the entry of waitCondition.wait, which registers the waiter and         *)
(* releases the lock.  The locals of step are gone.                        *)
(***************************************************************************)
\* Mutant of RunAdvance: the state is left where it was.
RunAdvance_Stale ==
    /\ pcRun = "advance"
    /\ LET next == (toSeconds(state) + delay) % DaySeconds
       IN  /\ state' = state
           /\ \E nowMs \in WallClock :
                 sleepDelay' = sleepDuration(toSeconds(fromSeconds(next)), nowMs)
    /\ wrapped' = (wrapped \/ toSeconds(state) + delay >= DaySeconds)
    /\ waiter' = "waiting"
    /\ lock' = Free
    /\ pcRun' = "wait"
    /\ solution' = <<>> /\ truthMatrix' = <<>> /\ success' = FALSE
    /\ attempts' = 0 /\ drawCount' = 0
    /\ UNCHANGED << configVars, delay, _stop,
                    windowSighted, visible, gotit, pcStop, window, cleanups, ticked >>

RunAdvance ==
    /\ pcRun = "advance"
    /\ LET next == (toSeconds(state) + delay) % DaySeconds
       IN  /\ state' = fromSeconds(next)
           /\ \E nowMs \in WallClock :
                 sleepDelay' = sleepDuration(toSeconds(fromSeconds(next)), nowMs)
    /\ wrapped' = (wrapped \/ toSeconds(state) + delay >= DaySeconds)
    /\ waiter' = "waiting"
    /\ lock' = Free
    /\ pcRun' = "wait"
    /\ solution' = <<>> /\ truthMatrix' = <<>> /\ success' = FALSE
    /\ attempts' = 0 /\ drawCount' = 0
    /\ UNCHANGED << configVars, delay, _stop,
                    windowSighted, visible, gotit, pcStop, window, cleanups, ticked >>

(***************************************************************************)
(* threading.Condition.wait(timeout), called at line 68: it returns when   *)
(* the waiter was notified or when the timeout ran out, and takes the lock *)
(* again before returning.                                                 *)
(***************************************************************************)
WaitNotified ==
    /\ pcRun = "wait"
    /\ waiter = "notified"
    /\ waiter' = "none"
    /\ gotit' = TRUE
    /\ pcRun' = "reacquire"
    /\ UNCHANGED << configVars, stepVars, delay, state, _stop, windowSighted,
                    visible, lock, sleepDelay, pcStop, window, cleanups, wrapped, ticked >>

WaitTimeout ==
    /\ pcRun = "wait"
    /\ waiter = "waiting"
    /\ waiter' = "none"
    /\ gotit' = FALSE
    /\ pcRun' = "reacquire"
    /\ UNCHANGED << configVars, stepVars, delay, state, _stop, windowSighted,
                    visible, lock, sleepDelay, pcStop, window, cleanups, wrapped, ticked >>

WaitReacquire ==
    /\ pcRun = "reacquire"
    /\ lock = Free
    /\ lock' = RunThread
    /\ gotit' = FALSE
    /\ sleepDelay' = NoSleep
    /\ pcRun' = "check"
    /\ UNCHANGED << configVars, stepVars, delay, state, _stop, windowSighted,
                    visible, waiter, pcStop, window, cleanups, wrapped, ticked >>

(***************************************************************************)
(* StateMachine.run, lines 73-76, with QlockThread.cleanup.                *)
(***************************************************************************)
\* Mutant of RunCleanup: run goes on to release the lock without calling cleanup.
RunCleanup_Skipped ==
    /\ pcRun = "cleanup"
    /\ pcRun' = "release"
    /\ UNCHANGED << configVars, stepVars, delay, state, _stop, windowSighted,
                    visible, lock, waiter, gotit, sleepDelay, pcStop, window, cleanups,
                    wrapped, ticked >>

\* Mutant of RunCleanup: cleanup draws nothing.
RunCleanup_KeepsGrid ==
    /\ pcRun = "cleanup"
    /\ cleanups' = cleanups + 1
    /\ pcRun' = "release"
    /\ UNCHANGED << configVars, stepVars, delay, state, _stop, windowSighted,
                    visible, lock, waiter, gotit, sleepDelay, pcStop, window, wrapped,
                    ticked >>

RunCleanup ==
    /\ pcRun = "cleanup"
    /\ window' = createTruthMatrix(layout.height, layout.width)
    /\ cleanups' = cleanups + 1
    /\ pcRun' = "release"
    /\ UNCHANGED << configVars, stepVars, delay, state, _stop, windowSighted,
                    visible, lock, waiter, gotit, sleepDelay, pcStop, wrapped, ticked >>

\* Mutant of RunRelease: the thread finishes with the lock still held.
RunRelease_Forgotten ==
    /\ pcRun = "release"
    /\ pcRun' = "done"
    /\ UNCHANGED << configVars, stepVars, delay, state, _stop, windowSighted,
                    visible, lock, waiter, gotit, sleepDelay, pcStop, window, cleanups,
                    wrapped, ticked >>

RunRelease ==
    /\ pcRun = "release"
    /\ lock' = Free
    /\ pcRun' = "done"
    /\ UNCHANGED << configVars, stepVars, delay, state, _stop, windowSighted,
                    visible, waiter, gotit, sleepDelay, pcStop, window, cleanups, wrapped, ticked >>

(***************************************************************************)
(* StateMachine.stop, called by thread s.                                  *)
(***************************************************************************)
StopCall(s) ==
    /\ ctor = "ok"
    /\ pcStop[s] = "idle"
    /\ pcStop' = [pcStop EXCEPT ![s] = "acquire"]
    /\ UNCHANGED << configVars, stepVars, delay, state, _stop, windowSighted,
                    visible, lock, waiter, gotit, sleepDelay, pcRun, window, cleanups, wrapped, ticked >>

\* Mutant of StopAcquire: stop() goes on without waiting for the lock.
StopAcquire_NoLock(s) ==
    /\ pcStop[s] = "acquire"
    /\ pcStop' = [pcStop EXCEPT ![s] = "set"]
    /\ UNCHANGED << configVars, stepVars, delay, state, _stop, windowSighted,
                    visible, lock, waiter, gotit, sleepDelay, pcRun, window, cleanups,
                    wrapped, ticked >>

StopAcquire(s) ==
    /\ pcStop[s] = "acquire"
    /\ lock = Free
    /\ lock' = Stopper(s)
    /\ pcStop' = [pcStop EXCEPT ![s] = "set"]
    /\ UNCHANGED << configVars, stepVars, delay, state, _stop, windowSighted,
                    visible, waiter, gotit, sleepDelay, pcRun, window, cleanups, wrapped, ticked >>

StopSet(s) ==
    /\ pcStop[s] = "set"
    /\ _stop' = TRUE
    /\ pcStop' = [pcStop EXCEPT ![s] = "notify"]
    /\ UNCHANGED << configVars, stepVars, delay, state, windowSighted,
                    visible, lock, waiter, gotit, sleepDelay, pcRun, window, cleanups, wrapped, ticked >>

\* Mutant of StopNotify: stop() sets the flag and notifies nobody.
StopNotify_Nobody(s) ==
    /\ pcStop[s] = "notify"
    /\ pcStop' = [pcStop EXCEPT ![s] = "release"]
    /\ UNCHANGED << configVars, stepVars, delay, state, _stop, windowSighted,
                    visible, lock, waiter, gotit, sleepDelay, pcRun, window, cleanups,
                    wrapped, ticked >>

StopNotify(s) ==
    /\ pcStop[s] = "notify"
    /\ waiter' = IF waiter = "waiting" THEN "notified" ELSE waiter
    /\ pcStop' = [pcStop EXCEPT ![s] = "release"]
    /\ UNCHANGED << configVars, stepVars, delay, state, _stop, windowSighted,
                    visible, lock, gotit, sleepDelay, pcRun, window, cleanups, wrapped, ticked >>

StopRelease(s) ==
    /\ pcStop[s] = "release"
    /\ lock' = Free
    /\ pcStop' = [pcStop EXCEPT ![s] = "done"]
    /\ UNCHANGED << configVars, stepVars, delay, state, _stop, windowSighted,
                    visible, waiter, gotit, sleepDelay, pcRun, window, cleanups, wrapped, ticked >>

(***************************************************************************)
(* The host: the window becomes visible or stops being visible.            *)
(***************************************************************************)
WindowShow ==
    /\ ctor = "ok"
    /\ ~visible
    /\ visible' = TRUE
    /\ UNCHANGED << configVars, stepVars, delay, state, _stop, windowSighted,
                    lock, waiter, gotit, sleepDelay, pcRun, pcStop, window, cleanups, wrapped, ticked >>

WindowHide ==
    /\ ctor = "ok"
    /\ visible
    /\ visible' = FALSE
    /\ UNCHANGED << configVars, stepVars, delay, state, _stop, windowSighted,
                    lock, waiter, gotit, sleepDelay, pcRun, pcStop, window, cleanups, wrapped, ticked >>

StepActions == StepSolve \/ StepHighlight \/ StepRetry \/ StepDraw

RunActions ==
    \/ RunAcquire \/ RunCheck \/ StepActions \/ RunAdvance
    \/ WaitNotified \/ WaitReacquire \/ RunCleanup \/ RunRelease

StopActions(s) == StopAcquire(s) \/ StopSet(s) \/ StopNotify(s) \/ StopRelease(s)

Next ==
    \/ Start
    \/ RunAcquire
    \/ RunCheck
    \/ StepSolve
    \/ StepHighlight
    \/ StepRetry
    \/ StepDraw
    \/ RunAdvance
    \/ WaitNotified
    \/ WaitTimeout
    \/ WaitReacquire
    \/ RunCleanup
    \/ RunRelease
    \/ \E s \in Stoppers : StopCall(s)
    \/ \E s \in Stoppers : StopAcquire(s)
    \/ \E s \in Stoppers : StopSet(s)
    \/ \E s \in Stoppers : StopNotify(s)
    \/ \E s \in Stoppers : StopRelease(s)
    \/ WindowShow
    \/ WindowHide

Spec == Init /\ [][Next]_vars

(***************************************************************************)
(* FairSpec: a thread calling stop() keeps running until stop() returns,   *)
(* and the scheduler thread, once it can leave wait(), runs until it is    *)
(* done or back in step.  Nothing is assumed about the passing of time: a  *)
(* timed wait need never time out.                                         *)
(***************************************************************************)
WakeActions == WaitNotified \/ WaitReacquire \/ RunCheck \/ RunCleanup \/ RunRelease

FairSpec ==
    /\ Spec
    /\ WF_vars(WakeActions)
    /\ \A s \in Stoppers : WF_vars(StopActions(s))

(***************************************************************************)
(* TimedSpec: the runs in which stop() is never called.  The scheduler     *)
(* thread keeps running and time passes, so a timed wait times out.        *)
(***************************************************************************)
TNext ==
    \/ Start
    \/ RunAcquire
    \/ RunCheck
    \/ StepSolve
    \/ StepHighlight
    \/ StepRetry
    \/ StepDraw
    \/ RunAdvance
    \/ WaitTimeout
    \/ WaitReacquire
    \/ RunCleanup
    \/ RunRelease
    \/ WindowShow
    \/ WindowHide

TimedSpec ==
    /\ Init
    /\ [][TNext]_vars
    /\ WF_vars(RunActions)
    /\ WF_vars(WaitTimeout)

(***************************************************************************)
(* One tick of the clock face on every enumerated grid, with a solver that *)
(* returns one enumerated token sequence: the scheduler thread stands at   *)
(* the call of step, holding the lock.                                     *)
(***************************************************************************)
HInit ==
    \E lay \in AllLayouts, sol \in AllPhrases :
        Construct({43200}, 0, lay, {sol}, FALSE, "step", RunThread)

HNext ==
    \/ StepSolve
    \/ StepHighlight
    \/ StepRetry
    \/ StepDraw

HSpec == HInit /\ [][HNext]_vars

(***************************************************************************)
(* Positions of the scheduler thread.                                      *)
(***************************************************************************)
LockFreePcs == { "new", "acquire", "wait", "reacquire", "done" }
ExitPcs == { "cleanup", "release", "done" }

(***************************************************************************)
(* C1.  Once the stop flag is set while the loop is blocked in its timed   *)
(* wait, step is not invoked again and the thread finishes, even if the    *)
(* timeout never runs out: FairSpec assumes nothing about the passing of   *)
(* time, so the wake-up is the notification's.                             *)
(***************************************************************************)
C1_NoStepAfterStop ==
    (ctor = "ok" /\ _stop) => pcRun \notin StepPcs \cup { "advance" }

C1_Sleeping == ctor = "ok" /\ _stop /\ pcRun = "wait"

C1_StopWakesSleeper ==
    /\ []C1_NoStepAfterStop
    /\ (C1_Sleeping ~> pcRun = "done")

C1_Witness ==
    /\ pcRun = "reacquire"
    /\ _stop
    /\ gotit
    /\ sleepDelay > 0

(***************************************************************************)
(* C2.  stop() never interrupts step: the stopper touches the flag only    *)
(* while it owns the lock and the loop does not; from a position inside    *)
(* step the loop only moves on inside step or to the statement after it,   *)
(* with the flag unchanged; and whenever the loop is waiting with the flag *)
(* set, its waiter has been notified or the stopper that holds the lock is *)
(* about to notify it.                                                     *)
(***************************************************************************)
C2_StepUndisturbed ==
    pcRun \in StepPcs =>
        /\ _stop' = _stop
        /\ pcRun' \in StepPcs \cup { "advance" }

C2_StopNeverInterruptsStep ==
    /\ [](ctor = "ok" =>
            /\ \A s \in Stoppers :
                  pcStop[s] \in { "set", "notify", "release" }
                      => lock = Stopper(s) /\ pcRun \in LockFreePcs
            /\ (_stop /\ pcRun = "wait")
                  => (waiter = "notified" \/ \E s \in Stoppers : pcStop[s] = "notify"))
    /\ [][C2_StepUndisturbed]_vars

C2_Witness ==
    /\ ctor = "ok"
    /\ pcRun = "draw"
    /\ ~_stop
    /\ \E s \in Stoppers : pcStop[s] = "acquire"

(***************************************************************************)
(* C3.  A stop-check made with windowSighted true and the window not       *)
(* visible leaves the loop, whatever the stop flag; once the loop is left  *)
(* step is not entered again; and windowSighted changes exactly when a     *)
(* stop-check sees the window visible, to true.                            *)
(***************************************************************************)
C3_CheckStep ==
    ctor = "ok" =>
        LET checked == pcRun = "check" /\ pcRun' # "check"
        IN  /\ (checked /\ windowSighted /\ ~visible) => pcRun' = "cleanup"
            /\ pcRun \in ExitPcs => pcRun' \in ExitPcs
            /\ (checked /\ visible) => windowSighted'
            /\ windowSighted' # windowSighted => (checked /\ visible /\ windowSighted')

C3_VisibilityLossStops == [][C3_CheckStep]_vars

C3_Witness ==
    /\ ctor = "ok"
    /\ pcRun = "cleanup"
    /\ windowSighted
    /\ ~visible
    /\ ~_stop
    /\ \A s \in Stoppers : pcStop[s] = "idle"

(***************************************************************************)
(* C4.  cleanup is invoked exactly once per run of the thread: never       *)
(* twice, only from the position after the loop and with the lock held,    *)
(* and always before the lock is released and the thread is done.  After   *)
(* cleanup no position of the loop is entered again.                       *)
(***************************************************************************)
C4_CleanupStep ==
    /\ cleanups' # cleanups =>
          (pcRun = "cleanup" /\ lock = RunThread /\ pcRun' = "release")
    /\ cleanups >= 1 => pcRun' \in { "release", "done" }

C4_CleanupOnce ==
    /\ [](ctor = "ok" =>
            /\ cleanups <= 1
            /\ pcRun \in { "release", "done" } <=> cleanups = 1
            /\ pcRun = "release" => lock = RunThread)
    /\ [][C4_CleanupStep]_vars

C4_Witness ==
    /\ pcRun = "done"
    /\ cleanups = 1
    /\ wrapped
    /\ lock = Free

(***************************************************************************)
(* What a highlighting pass marked, and what its matches cover.            *)
(***************************************************************************)
FreshMatrix == createTruthMatrix(layout.height, layout.width)

MarkedCells(tm) ==
    { rc \in (0..(layout.height - 1)) \X (0..(layout.width - 1)) : tm[rc[1] + 1][rc[2] + 1] }

SpanCells(spans) ==
    UNION { { <<spans[k].row, c>> : c \in spans[k].first..spans[k].last } :
            k \in 1..Len(spans) }

SpanText(span) ==
    join(SubSeq(layout.matrix[span.row + 1], span.first + 1, span.last + 1))

AnyMarked(tm) == MarkedCells(tm) # {}

(***************************************************************************)
(* C5.  The two-attempt policy of step: at most two highlight calls and    *)
(* one drawMatrix call in a tick; the retry is entered only when the       *)
(* strict attempt on a fresh grid failed; what is drawn is the strict      *)
(* attempt's grid when that attempt consumed all tokens, and otherwise the *)
(* grid of the relaxed attempt on a fresh grid and the whole solution,     *)
(* whether or not that attempt succeeded.                                  *)
(***************************************************************************)
C5_TwoAttemptRetry ==
    LET strict  == highlight(layout.height, layout.matrix, FreshMatrix, solution, TRUE)
        relaxed == highlight(layout.height, layout.matrix, FreshMatrix, solution, FALSE)
    IN  /\ attempts <= 2
        /\ drawCount <= 1
        /\ pcRun \in { "highlight", "retry", "draw" } => drawCount = 0
        /\ pcRun = "retry" => (attempts = 1 /\ ~strict.success)
        /\ pcRun = "draw" =>
              \/ attempts = 1 /\ strict.success /\ success
                   /\ truthMatrix = strict.truthMatrix
              \/ attempts = 2 /\ ~strict.success /\ success = relaxed.success
                   /\ truthMatrix = relaxed.truthMatrix
        /\ (pcRun = "advance" /\ attempts > 0) =>
              /\ drawCount = 1
              /\ window = IF strict.success THEN strict.truthMatrix
                          ELSE relaxed.truthMatrix

C5_Witness ==
    /\ pcRun = "advance"
    /\ attempts = 2
    /\ ~success
    /\ drawCount = 1
    /\ AnyMarked(window)

(***************************************************************************)
(* C6.  When highlight succeeds, the marked cells are the union of one     *)
(* contiguous span per token, each within one row, the spans follow one    *)
(* another in row-major order in the order of the tokens, and the text of  *)
(* each span equals its token.                                             *)
(***************************************************************************)
SpansInOrder(spans) ==
    \A k \in 1..(Len(spans) - 1) :
        \/ spans[k].row < spans[k + 1].row
        \/ spans[k].row = spans[k + 1].row /\ spans[k].last < spans[k + 1].first

C6_SpansSpellTokens ==
    (pcRun = "draw" /\ success) =>
        LET r == highlight(layout.height, layout.matrix, FreshMatrix, solution, attempts = 1)
        IN  /\ truthMatrix = r.truthMatrix
            /\ Len(r.spans) = Len(solution)
            /\ \A k \in 1..Len(r.spans) : r.spans[k].first <= r.spans[k].last
            /\ SpansInOrder(r.spans)
            /\ MarkedCells(truthMatrix) = SpanCells(r.spans)
            /\ \A k \in 1..Len(r.spans) : SpanText(r.spans[k]) = solution[k]

(***************************************************************************)
(* C7.  With forceSpace true, on every row and for every token sequence,   *)
(* the cell after a matched span is left unmarked and the next match       *)
(* starts two cells or more after the span's last cell.  On the row        *)
(* a,h,a,l,f with tokens a, half only cell 0 is marked, one token is       *)
(* consumed and highlight fails.                                           *)
(***************************************************************************)
C7_ForceSpaceKeepsGap ==
    /\ \A row \in 0..(layout.height - 1) :
          LET r == highlightRow(layout.matrix[row + 1], row, FreshMatrix, solution, TRUE)
          IN  \A k \in 1..Len(r.spans) :
                 /\ r.spans[k].last + 1 < layout.width
                       => ~r.truthMatrix[row + 1][r.spans[k].last + 2]
                 /\ k < Len(r.spans)
                       => r.spans[k + 1].first >= r.spans[k].last + 2
    /\ LET e == highlightRow(ExampleRow, 0, createTruthMatrix(1, 5), ExampleTokens, TRUE)
       IN  /\ e.consumed = 1
           /\ e.truthMatrix = << <<TRUE, FALSE, FALSE, FALSE, FALSE>> >>
    /\ ~highlight(1, <<ExampleRow>>, createTruthMatrix(1, 5), ExampleTokens, TRUE).success

C7_Witness ==
    /\ pcRun = "retry"
    /\ layout = ExampleLayout
    /\ solution = ExampleTokens
    /\ truthMatrix = << <<TRUE, FALSE, FALSE, FALSE, FALSE>> >>
    /\ ~success

(***************************************************************************)
(* C8.  With forceSpace false, on every row and for every token sequence,  *)
(* a next token that matches at the cell right after a matched span is     *)
(* matched there.  On the row a,h,a,l,f with tokens a, half both tokens    *)
(* are consumed and cells 0..4 are all marked.                             *)
(***************************************************************************)
C8_RelaxedAllowsAdjacent ==
    /\ \A row \in 0..(layout.height - 1) :
          LET charRow == layout.matrix[row + 1]
              r == highlightRow(charRow, row, FreshMatrix, solution, FALSE)
          IN  \A k \in 1..Len(r.spans) :
                 (/\ k < Len(solution)
                  /\ startswith(join(sliceFrom(charRow, r.spans[k].last + 1)),
                                solution[k + 1]))
                     => /\ k < Len(r.spans)
                        /\ r.spans[k + 1].first = r.spans[k].last + 1
    /\ LET e == highlightRow(ExampleRow, 0, createTruthMatrix(1, 5), ExampleTokens, FALSE)
       IN  /\ e.consumed = 2
           /\ e.truthMatrix = << <<TRUE, TRUE, TRUE, TRUE, TRUE>> >>

C8_Witness ==
    /\ pcRun = "draw"
    /\ attempts = 2
    /\ success
    /\ layout = ExampleLayout
    /\ solution = ExampleTokens
    /\ truthMatrix = << <<TRUE, TRUE, TRUE, TRUE, TRUE>> >>

(***************************************************************************)
(* C9.  In a run in which stop() is never called, every configured time    *)
(* offset is the state passed to step again and again, unless the thread   *)
(* is never started or the loop is left because the window disappeared.    *)
(***************************************************************************)
C9_InStepWith(t) == ctor = "ok" /\ pcRun = "highlight" /\ toSeconds(state) = t

C9_NotLooping == pcRun \in { "new", "failed" } \cup ExitPcs

C9_EveryOffsetTicked ==
    \A t \in UNION TimeSets :
        (ctor = "ok" /\ t \in times) => ([]<>C9_InStepWith(t) \/ <>[]C9_NotLooping)

C9_Witness ==
    /\ ctor = "ok"
    /\ times = {32400, 64800}
    /\ pcRun = "highlight"
    /\ toSeconds(state) = 32400
    /\ wrapped

(***************************************************************************)
(* C10.  The delay set at construction is the greatest common divisor of   *)
(* the configured time offsets: it divides each of them and no larger      *)
(* number does ({300, 600, 900} give 300); and no step of the scheduler,   *)
(* of a stopper or of the host changes it.                                 *)
(***************************************************************************)
MaxOf(S) == CHOOSE x \in S : \A y \in S : y <= x

IsGreatestCommonDivisor(d, S) ==
    /\ d > 0
    /\ \A t \in S : t % d = 0
    /\ \A e \in (d + 1)..MaxOf(S) : \E t \in S : t % e # 0

C10_DelayKept == delay' = delay

C10_DelayIsGcd ==
    /\ ctor = "ok" => IsGreatestCommonDivisor(delay, times)
    /\ calcDelay({300, 600, 900}) = 300
    /\ [][C10_DelayKept]_vars

C10_Witness ==
    /\ pcRun = "done"
    /\ times = {43200, 64800}
    /\ delay = 21600
    /\ _stop
    /\ wrapped
    /\ cleanups = 1

(***************************************************************************)
(* C11.  The sleep requested for the next state n from a wall-clock        *)
(* reading w of the day is n - w when that is not negative and             *)
(* n - w + 86400 otherwise, and so lies in [0, 86400): for every pair of   *)
(* the sampled states and readings, and for the sleep the loop requests    *)
(* each time it enters its wait.  From state 86300 with delay 300 the next *)
(* state is 200, and from wall clock 86350 the sleep is 250 seconds.       *)
(***************************************************************************)
DayMillis == DaySeconds * MillisPerSecond

TickSamples == { 0, 200, 43200, 86399 }

SleepFor(n, w) ==
    IF n * MillisPerSecond - w >= 0
    THEN n * MillisPerSecond - w
    ELSE n * MillisPerSecond - w + DayMillis

C11_SleepRequested ==
    (pcRun = "advance" /\ pcRun' = "wait") =>
        /\ \E w \in WallClock : sleepDelay' = SleepFor(toSeconds(state'), w)
        /\ sleepDelay' >= 0
        /\ sleepDelay' < DayMillis

C11_SleepWraps ==
    /\ \A n \in TickSamples :
          \A w \in WallClock \cup { 0, n * MillisPerSecond, DayMillis - 1 } :
             /\ sleepDuration(n, w) = SleepFor(n, w)
             /\ sleepDuration(n, w) >= 0
             /\ sleepDuration(n, w) < DayMillis
    /\ (86300 + 300) % DaySeconds = 200
    /\ sleepDuration(200, 86350 * MillisPerSecond) = 250 * MillisPerSecond
    /\ [][C11_SleepRequested]_vars

C11_Witness ==
    /\ ctor = "ok"
    /\ pcRun = "wait"
    /\ toSeconds(state) = 43200
    /\ sleepDelay = 43200 * MillisPerSecond - (86350 * MillisPerSecond + 500) + DayMillis

(***************************************************************************)
(* C12.  The state is always a time of the day, in [0, 86400) seconds.     *)
(* The first call of step receives the state as it stands, and each later  *)
(* call receives the value of the call before it plus the delay, modulo    *)
(* 86400: the state changes only between two calls of step, once, by the   *)
(* delay, and no step of a thread calling stop() or of the host changes    *)
(* it.                                                                     *)
(***************************************************************************)
C12_TickStep ==
    ctor = "ok" =>
        /\ ticked' # ticked =>
              /\ pcRun = "step"
              /\ ticked' = toSeconds(state)
              /\ ticked # NoTick => ticked' = (ticked + delay) % DaySeconds
        /\ (pcRun = "step" /\ pcRun' # "step") => ticked' = toSeconds(state)
        /\ state' # state =>
              /\ pcRun = "advance"
              /\ toSeconds(state') = (toSeconds(state) + delay) % DaySeconds
        /\ (pcRun = "advance" /\ pcRun' # "advance") =>
              toSeconds(state') = (ticked + delay) % DaySeconds

C12_TicksInSequence ==
    /\ [](ctor = "ok" =>
            /\ toSeconds(state) >= 0
            /\ toSeconds(state) < DaySeconds
            /\ fromSeconds(toSeconds(state)) = state
            /\ pcRun \in { "highlight", "retry", "draw", "advance" }
                  => ticked = toSeconds(state)
            /\ (ticked # NoTick /\ pcRun \notin { "highlight", "retry", "draw", "advance" })
                  => toSeconds(state) = (ticked + delay) % DaySeconds)
    /\ [][C12_TickStep]_vars

C12_Witness ==
    /\ ctor = "ok"
    /\ pcRun = "highlight"
    /\ wrapped
    /\ ticked < delay
    /\ ~_stop
    /\ \E s \in Stoppers : pcStop[s] = "acquire"

(***************************************************************************)
(* StopSpec: the runs of a scheduler with one time offset.  The scheduler  *)
(* thread keeps running once started, a thread calling stop() keeps        *)
(* running until stop() returns, and a thread that finds the lock free     *)
(* again and again gets it in the end.  Nothing is assumed about the       *)
(* passing of time.                                                        *)
(***************************************************************************)
StopInit ==
    \E nowMs \in WallClock, vis \in BOOLEAN :
        Construct({43200}, nowMs, SchedLayout, SchedPhrases, vis, "new", Free)

StopSpec ==
    /\ StopInit
    /\ [][Next]_vars
    /\ WF_vars(RunActions)
    /\ \A s \in Stoppers : SF_vars(StopActions(s))

(***************************************************************************)
(* C13.  stop() may be called by several threads and at any point.  A      *)
(* step of stop() changes nothing but the flag, the lock and the waiter,   *)
(* and never clears the flag.  Whenever no call is under way and one or    *)
(* more have returned, the scheduler is in the state one call leaves: flag *)
(* set, lock not with a caller, no waiter left waiting, the loop outside   *)
(* step and cleanup run at most once, and once after the loop is done.     *)
(* Every call that has started returns.                                    *)
(***************************************************************************)
StopsReturned == { s \in Stoppers : pcStop[s] = "done" }

StopsUnderWay == { s \in Stoppers : pcStop[s] \notin { "idle", "done" } }

C13_StopStep ==
    pcStop' # pcStop =>
        /\ _stop => _stop'
        /\ UNCHANGED << configVars, stepVars, delay, state, windowSighted, visible,
                        gotit, sleepDelay, pcRun, window, cleanups, wrapped, ticked >>

C13_StopIdempotent ==
    /\ [](/\ cleanups <= 1
          /\ _stop => pcRun \notin StepPcs \cup { "advance" }
          /\ (StopsReturned # {} /\ StopsUnderWay = {}) =>
                /\ _stop
                /\ lock \in { Free, RunThread }
                /\ waiter # "waiting"
                /\ pcRun = "done" => (lock = Free /\ waiter = "none" /\ cleanups = 1)
                /\ pcRun = "new" => (lock = Free /\ waiter = "none" /\ cleanups = 0))
    /\ [][C13_StopStep]_vars
    /\ \A s \in Stoppers : (pcStop[s] = "acquire") ~> (pcStop[s] = "done")

C13_Witness ==
    /\ pcRun = "done"
    /\ cleanups = 1
    /\ \E s \in Stoppers, t \in Stoppers :
          /\ s # t
          /\ pcStop[s] = "done"
          /\ pcStop[t] = "release"

(***************************************************************************)
(* C14.  With an empty set of time offsets the construction raises: the    *)
(* delay computation fails with TypeError, no delay, state, flag or lock   *)
(* exists, and no thread ever ticks, draws, cleans up or stops anything.   *)
(***************************************************************************)
C14_EmptyTimesRejected ==
    /\ calcDelay({}) = "TypeError"
    /\ times = {} =>
          /\ ctor = "TypeError"
          /\ delay = None
          /\ state = None
          /\ _stop = None
          /\ windowSighted = None
          /\ lock = None
          /\ waiter = None
          /\ pcRun = "failed"
          /\ ticked = NoTick
          /\ window = <<>>
          /\ attempts = 0
          /\ drawCount = 0
          /\ cleanups = 0
          /\ \A s \in Stoppers : pcStop[s] = "idle"

C14_Witness ==
    /\ times = {}
    /\ ctor = "TypeError"
    /\ pcRun = "failed"
    /\ delay = None

(***************************************************************************)
(* C15.  Once cleanup has run, whether the loop was left on stop() or on   *)
(* the loss of the window, the grid last handed to drawMatrix has the      *)
(* height and width of the layout and no lit cell, and nothing is drawn    *)
(* after it: the thread only goes on to release the lock and finish.       *)
(***************************************************************************)
AllFalseGrid(tm) ==
    /\ Len(tm) = layout.height
    /\ \A r \in 1..Len(tm) :
          /\ Len(tm[r]) = layout.width
          /\ \A c \in 1..Len(tm[r]) : ~tm[r][c]

C15_AfterCleanup ==
    pcRun \in { "release", "done" } =>
        /\ pcRun' \in { "release", "done" }
        /\ window' = window

C15_CleanupDrawsBlank ==
    /\ [](ctor = "ok" =>
            /\ pcRun \in { "release", "done" } => AllFalseGrid(window)
            /\ pcRun \in { "release", "done" } <=> cleanups > 0)
    /\ [][C15_AfterCleanup]_vars

C15_Witness ==
    /\ ctor = "ok"
    /\ pcRun = "done"
    /\ ~_stop
    /\ windowSighted
    /\ ~visible
    /\ ticked # NoTick
    /\ AllFalseGrid(window)

(***************************************************************************)
(* C16.  Both flags start false and are monotone: no step of run,          *)
(* shouldStop, step, cleanup, stop() or the host takes _stop or            *)
(* windowSighted from true back to false.                                  *)
(***************************************************************************)
C16_FlagStep ==
    ctor = "ok" =>
        /\ _stop => _stop'
        /\ windowSighted => windowSighted'

C16_FlagsMonotone ==
    /\ [](ctor = "ok" =>
            /\ _stop \in BOOLEAN
            /\ windowSighted \in BOOLEAN
            /\ pcRun = "new" => ~windowSighted
            /\ (\A s \in Stoppers : pcStop[s] \in { "idle", "acquire", "set" }) => ~_stop)
    /\ [][C16_FlagStep]_vars

C16_Witness ==
    /\ ctor = "ok"
    /\ _stop
    /\ windowSighted
    /\ ~visible
    /\ pcRun = "check"
    /\ wrapped

(***************************************************************************)
(* C17.  The sleep requested after a step is never longer than the delay,  *)
(* whatever wall-clock time is read after step returns.                    *)
(***************************************************************************)
C17_SleepAtMostDelay ==
    (ctor = "ok" /\ pcRun = "wait") => sleepDelay <= delay * MillisPerSecond

(***************************************************************************)
(* C18.  A stop-check made while the window is not visible and was never   *)
(* seen returns the stop flag and leaves windowSighted false.  So in the   *)
(* runs without a call of stop() such a check always goes on to step, the  *)
(* loop is left only after the window has been seen, and a started loop    *)
(* that never sees the window calls step again and again.                  *)
(***************************************************************************)
C18_UnsightedCheck ==
    (ctor = "ok" /\ pcRun = "check" /\ pcRun' # "check" /\ ~windowSighted /\ ~visible) =>
        /\ pcRun' = (IF _stop THEN "cleanup" ELSE "step")
        /\ ~windowSighted'

C18_NoEarlyAutoStop ==
    /\ \A st \in BOOLEAN :
          shouldStop(FALSE, FALSE, st) = [ret |-> st, windowSighted |-> FALSE]
    /\ [](ctor = "ok" => (pcRun \in ExitPcs => windowSighted))
    /\ [][C18_UnsightedCheck]_vars
    /\ ctor = "ok" =>
          \/ []<>(pcRun = "step")
          \/ <>(ctor = "ok" /\ windowSighted)
          \/ [](pcRun = "new")

C18_Witness ==
    /\ ctor = "ok"
    /\ pcRun = "step"
    /\ ~windowSighted
    /\ ~visible
    /\ wrapped

(***************************************************************************)
(* C19.  The frame of highlighting.  Given the grid step holds (a fresh    *)
(* one before the first attempt, the first attempt's afterwards) and the   *)
(* solution, highlightRow on any row keeps the grid's shape, leaves every  *)
(* other row as it was and takes no cell from true to false; highlight     *)
(* takes no cell from true to false and leaves a suffix of the tokens;     *)
(* with no tokens it succeeds and returns the grid as given.  No step of   *)
(* the tick changes the layout or the solver's answer, and the solution    *)
(* the retry works on is the whole answer of the solver.                   *)
(***************************************************************************)
GridGiven == IF truthMatrix = <<>> THEN FreshMatrix ELSE truthMatrix

OnlyTurnedOn(before, after) ==
    /\ Len(after) = Len(before)
    /\ \A r \in 1..Len(before) :
          /\ Len(after[r]) = Len(before[r])
          /\ \A c \in 1..Len(before[r]) : before[r][c] => after[r][c]

C19_RowFrame(row, forceSpace) ==
    LET r == highlightRow(layout.matrix[row + 1], row, GridGiven, solution, forceSpace)
    IN  /\ OnlyTurnedOn(GridGiven, r.truthMatrix)
        /\ \A other \in 1..layout.height :
              other # row + 1 => r.truthMatrix[other] = GridGiven[other]
        /\ r.consumed >= 0
        /\ r.consumed <= Len(solution)

C19_GridFrame(forceSpace) ==
    LET h == highlight(layout.height, layout.matrix, GridGiven, solution, forceSpace)
    IN  /\ OnlyTurnedOn(GridGiven, h.truthMatrix)
        /\ Len(h.tokens) <= Len(solution)
        /\ h.tokens = sliceFrom(solution, Len(solution) - Len(h.tokens))
        /\ solution = <<>> => (h.success /\ h.truthMatrix = GridGiven)

C19_InputsKept ==
    /\ layout' = layout
    /\ phrases' = phrases
    /\ pcRun \in { "highlight", "retry", "draw" } => solution' = solution

C19_HighlightFrame ==
    /\ [](/\ \A forceSpace \in BOOLEAN :
                /\ C19_GridFrame(forceSpace)
                /\ \A row \in 0..(layout.height - 1) : C19_RowFrame(row, forceSpace)
          /\ pcRun \in { "highlight", "retry", "draw" } => solution \in phrases)
    /\ [][C19_InputsKept]_vars

C19_Witness ==
    /\ pcRun = "retry"
    /\ layout.height = 2
    /\ Len(solution) = 2
    /\ AnyMarked(truthMatrix)

(***************************************************************************)
(* C20.  On every grid and for every token sequence, highlight with        *)
(* forceSpace false consumes at least as many tokens as highlight with     *)
(* forceSpace true; when the strict attempt consumes them all, so does the *)
(* relaxed one.                                                            *)
(***************************************************************************)
ConsumedBy(forceSpace) ==
    Len(solution)
        - Len(highlight(layout.height, layout.matrix, FreshMatrix, solution, forceSpace).tokens)

C20_RelaxedDominates ==
    /\ ConsumedBy(FALSE) >= ConsumedBy(TRUE)
    /\ highlight(layout.height, layout.matrix, FreshMatrix, solution, TRUE).success
          => highlight(layout.height, layout.matrix, FreshMatrix, solution, FALSE).success

C20_Witness ==
    /\ pcRun = "draw"
    /\ attempts = 2
    /\ success
    /\ layout.height = 2
    /\ ConsumedBy(TRUE) = 1
    /\ ConsumedBy(FALSE) = 2

====
